---- MODULE Spec2Model ----
(***************************************************************************)
(* Model of raiden/message_handler.py: MessageHandler.on_message and the   *)
(* nine handle_message_* handlers it dispatches to.                        *)
(*                                                                         *)
(* The handler object itself has no fields.  What a dispatch does is       *)
(* observable only at its collaborators: the state-change sink             *)
(* raiden.handle_and_track_state_change, the two entry points              *)
(* raiden.target_mediated_transfer / raiden.mediate_mediated_transfer,     *)
(* the queries (secret registry, routing, transfer role, transfer secret,  *)
(* random_secret), the log, and the exception (if any) that leaves         *)
(* on_message.  The model records all of these for the latest dispatch,    *)
(* and running totals over all dispatches.                                 *)
(***************************************************************************)
EXTENDS Integers, Sequences, FiniteSets, TLC

\* ------------------------------------------------------------------------
\* Bounds of the model
\* ------------------------------------------------------------------------
MaxDispatch == 2
MaxRoutes == 2
MaxVal == 2
MaxChain == 1

\* ------------------------------------------------------------------------
\* Value domains
\* ------------------------------------------------------------------------
Addresses == {"0xA1", "0xA2"}
SecretHashes == {"h1", "h2"}
Secrets == {"s1", "s2"}
Vals == 1..MaxVal
RouteIds == 1..MaxRoutes

ABSENT_SECRET == ""

\* What views.get_transfer_role can answer; the handler only tells
\* "initiator" from everything else.
Roles == {"initiator", "mediator", "target"}

\* What views.get_transfer_secret can answer: the secret, or ABSENT_SECRET.
KnownSecrets == {ABSENT_SECRET, "s1"}

\* What random_secret() can return: a fresh secret, never the empty one.
RandomSecrets == Secrets

\* What get_best_routes can hand back: an ordered list of distinct routes,
\* the empty list included ("no routes", which is also how a routing
\* failure is signalled).
RouteLists ==
    {s \in UNION {[1..k -> RouteIds] : k \in 0..MaxRoutes} :
        \A i, j \in DOMAIN s : i # j => s[i] # s[j]}

\* ------------------------------------------------------------------------
\* Protocol messages.  `kind` is type(message), the exact class.
\* ------------------------------------------------------------------------
SupportedKinds ==
    {"SecretRequest", "RevealSecret", "Unlock", "LockExpired", "RefundTransfer",
     "LockedTransfer", "WithdrawRequest", "Delivered", "Processed"}

UnknownKinds == {"Ping", "Pong"}

\* The classes a message of exact class k is an instance of
\* (RefundTransfer is declared as a subclass of LockedTransfer).
Mro(k) == IF k = "RefundTransfer" THEN {"RefundTransfer", "LockedTransfer"} ELSE {k}

Envelopes == [nonce : {MaxVal}, signer : Addresses]
Locks == [amount : {MaxVal}, secrethash : SecretHashes]

SecretRequests ==
    [kind : {"SecretRequest"}, payment_identifier : Vals, amount : Vals,
     expiration : {MaxVal + 1}, secrethash : SecretHashes, sender : Addresses]
RevealSecrets == [kind : {"RevealSecret"}, secret : Secrets, sender : Addresses]
Unlocks ==
    [kind : {"Unlock"}, message_identifier : Vals, secret : Secrets,
     envelope : Envelopes, sender : Addresses]
LockExpireds ==
    [kind : {"LockExpired"}, message_identifier : Vals, secrethash : SecretHashes,
     envelope : Envelopes, sender : Addresses]
RefundTransfers ==
    [kind : {"RefundTransfer"}, token_network_address : {"tn1"}, sender : Addresses,
     lock : Locks, target : {"0xA2"}, envelope : Envelopes]
LockedTransfers ==
    [kind : {"LockedTransfer"}, token_network_address : {"tn1"}, sender : Addresses,
     lock : Locks, target : Addresses, envelope : Envelopes]
WithdrawRequests ==
    [kind : {"WithdrawRequest"}, token_network_identifier : {"tn1", "tn2"},
     channel_identifier : Vals, amount : Vals, sender : Addresses]
Delivereds == [kind : {"Delivered"}, delivered_message_identifier : Vals, sender : Addresses]
Processeds == [kind : {"Processed"}, message_identifier : Vals, sender : Addresses]
Unknowns == [kind : UnknownKinds, cmdid : Vals, sender : Addresses]

NoMessage == [kind |-> "NoMessage"]

\* ------------------------------------------------------------------------
\* Collaborator answers for one dispatch (what the registry, routing and
\* the chain-state views would answer if asked, and what random_secret
\* draws if called).
\* ------------------------------------------------------------------------
NoAnswers ==
    [registered |-> FALSE, routes |-> <<>>, role |-> "mediator",
     old_secret |-> ABSENT_SECRET, random |-> "s1", chain_state |-> 0,
     chain_state_later |-> 0]

RegistryAnswers ==
    {[NoAnswers EXCEPT !.registered = b] : b \in BOOLEAN}

\* random_secret is called in the initiator branch only, so its draw is
\* enumerated there only.  The last set has the refunded lock's secrethash
\* already registered on-chain.
RefundAnswers ==
    {[NoAnswers EXCEPT !.routes = rl, !.role = ro, !.old_secret = o] :
        rl \in RouteLists, ro \in Roles \ {"initiator"}, o \in KnownSecrets}
    \cup
    {[NoAnswers EXCEPT !.routes = rl, !.role = "initiator", !.old_secret = o, !.random = s] :
        rl \in RouteLists, o \in KnownSecrets, s \in RandomSecrets}
    \cup
    {[NoAnswers EXCEPT !.registered = TRUE, !.routes = rl, !.role = ro] :
        rl \in RouteLists, ro \in Roles}

\* ------------------------------------------------------------------------
\* State
\* ------------------------------------------------------------------------
VARIABLES
    raiden,          \* node context handed to on_message
    dispatches,      \* number of on_message calls so far
    message,         \* the message of the latest on_message call
    answers,         \* the collaborators' answers during the latest call
    handlers,        \* handler bodies entered by the latest call, in order
    calls,           \* collaborator queries made by the latest call, in order
    tracked,         \* state changes handed to handle_and_track_state_change
    entries,         \* target/mediate entry-point invocations
    logs,            \* log records written
    raised,          \* exception that left the latest call ("none" if it returned)
    tracked_total,   \* state changes tracked over all calls
    entries_total,   \* entry-point invocations over all calls
    trace,           \* everything the latest call did at raiden and the
                     \* collaborators (queries, track, entry points), in order
    previous,        \* outcome of the call before, when the latest call was a
                     \* redelivery of the same message
    chain_state,     \* version of the node's chain state (views.state_from_raiden)
    mailbox,         \* messages the transport has received and not yet dispatched
    in_progress      \* on_message calls that have begun and not yet returned

vars ==
    <<raiden, dispatches, message, answers, handlers, calls, tracked, entries,
      logs, raised, tracked_total, entries_total, trace, previous, chain_state,
      mailbox, in_progress>>

\* ------------------------------------------------------------------------
\* Effects of a call: what it did at the collaborators, in order.
\* ------------------------------------------------------------------------
NoEffect ==
    [handlers |-> <<>>, calls |-> <<>>, tracked |-> <<>>, entries |-> <<>>,
     logs |-> <<>>, raised |-> "none", trace |-> <<>>]

\* raiden.handle_and_track_state_change(state_change)
handle_and_track_state_change(eff, state_change) ==
    [eff EXCEPT !.tracked = Append(@, state_change),
                !.trace = Append(@, "handle_and_track_state_change")]

\* raiden.target_mediated_transfer(message)
target_mediated_transfer(eff, m) ==
    [eff EXCEPT !.entries = Append(@, [entry |-> "target_mediated_transfer", message |-> m]),
                !.trace = Append(@, "target_mediated_transfer")]

\* raiden.mediate_mediated_transfer(message)
mediate_mediated_transfer(eff, m) ==
    [eff EXCEPT !.entries = Append(@, [entry |-> "mediate_mediated_transfer", message |-> m]),
                !.trace = Append(@, "mediate_mediated_transfer")]

\* A collaborator query, appended to the call log.
query(eff, call) ==
    [eff EXCEPT !.calls = Append(@, call), !.trace = Append(@, call.fn)]

\* balanceproof_from_envelope: the balance proof carried by the envelope;
\* its sender is the envelope's signer.
balanceproof_from_envelope(m) ==
    [nonce |-> m.envelope.nonce, sender |-> m.envelope.signer]

\* lockedtransfersigned_from_message: the transfer the message carries
\* (its lock, its target and the balance proof of its envelope).
lockedtransfersigned_from_message(m) ==
    [lock |-> m.lock, target |-> m.target,
     balance_proof |-> balanceproof_from_envelope(m)]

\* ------------------------------------------------------------------------
\* The handlers (bodies)
\* ------------------------------------------------------------------------
handle_message_withdrawrequest(r, m) ==
    LET secret_request ==
            [type |-> "ReceiveWithdrawRequest",
             token_network_identifier |-> m.token_network_identifier,
             channel_identifier |-> m.channel_identifier,
             amount |-> m.amount,
             sender |-> m.sender]
    IN handle_and_track_state_change(NoEffect, secret_request)

handle_message_secretrequest(r, m) ==
    LET secret_request ==
            [type |-> "ReceiveSecretRequest",
             payment_identifier |-> m.payment_identifier,
             amount |-> m.amount,
             expiration |-> m.expiration,
             secrethash |-> m.secrethash,
             sender |-> m.sender]
    IN handle_and_track_state_change(NoEffect, secret_request)

handle_message_revealsecret(r, m) ==
    LET state_change ==
            [type |-> "ReceiveSecretReveal", secret |-> m.secret, sender |-> m.sender]
    IN handle_and_track_state_change(NoEffect, state_change)

\* Variant of handle_message_unlock that takes the sender from the message.
handle_message_unlock_outer_sender(r, m) ==
    LET balance_proof == balanceproof_from_envelope(m)
        state_change ==
            [type |-> "ReceiveUnlock",
             message_identifier |-> m.message_identifier,
             secret |-> m.secret,
             balance_proof |-> balance_proof,
             sender |-> m.sender]
    IN handle_and_track_state_change(NoEffect, state_change)

handle_message_unlock(r, m) ==
    LET balance_proof == balanceproof_from_envelope(m)
        state_change ==
            [type |-> "ReceiveUnlock",
             message_identifier |-> m.message_identifier,
             secret |-> m.secret,
             balance_proof |-> balance_proof,
             sender |-> balance_proof.sender]
    IN handle_and_track_state_change(NoEffect, state_change)

handle_message_lockexpired(r, m) ==
    LET balance_proof == balanceproof_from_envelope(m)
        state_change ==
            [type |-> "ReceiveLockExpired",
             sender |-> balance_proof.sender,
             balance_proof |-> balance_proof,
             secrethash |-> m.secrethash,
             message_identifier |-> m.message_identifier]
    IN handle_and_track_state_change(NoEffect, state_change)

\* Variant of cancel_route_routes that keeps the routes when the secret is absent.
cancel_route_routes_kept(routes, old_secret) == routes

\* The route list the cancel-route state change carries: emptied when the
\* initiator does not hold the secret.
cancel_route_routes(routes, old_secret) ==
    IF old_secret = ABSENT_SECRET THEN <<>> ELSE routes

\* Variant of refund_state_change that reuses the known secret instead of the
\* freshly generated one.
refund_state_change_old_secret(from_transfer, routes, role, old_secret, secret) ==
    IF role = "initiator"
    THEN [type |-> "ReceiveTransferRefundCancelRoute",
          routes |-> cancel_route_routes(routes, old_secret),
          transfer |-> from_transfer,
          balance_proof |-> from_transfer.balance_proof,
          sender |-> from_transfer.balance_proof.sender,
          secret |-> old_secret]
    ELSE [type |-> "ReceiveTransferRefund",
          transfer |-> from_transfer,
          balance_proof |-> from_transfer.balance_proof,
          sender |-> from_transfer.balance_proof.sender,
          routes |-> routes]

\* Variant of refund_state_change that drops the routes of an absent secret
\* before looking at the role.
refund_state_change_cleared_first(from_transfer, routes, role, old_secret, secret) ==
    IF role = "initiator"
    THEN [type |-> "ReceiveTransferRefundCancelRoute",
          routes |-> cancel_route_routes(routes, old_secret),
          transfer |-> from_transfer,
          balance_proof |-> from_transfer.balance_proof,
          sender |-> from_transfer.balance_proof.sender,
          secret |-> secret]
    ELSE [type |-> "ReceiveTransferRefund",
          transfer |-> from_transfer,
          balance_proof |-> from_transfer.balance_proof,
          sender |-> from_transfer.balance_proof.sender,
          routes |-> cancel_route_routes(routes, old_secret)]

\* The state change a refund is translated to, by role.
refund_state_change(from_transfer, routes, role, old_secret, secret) ==
    IF role = "initiator"
    THEN [type |-> "ReceiveTransferRefundCancelRoute",
          routes |-> cancel_route_routes(routes, old_secret),
          transfer |-> from_transfer,
          balance_proof |-> from_transfer.balance_proof,
          sender |-> from_transfer.balance_proof.sender,
          secret |-> secret]
    ELSE [type |-> "ReceiveTransferRefund",
          transfer |-> from_transfer,
          balance_proof |-> from_transfer.balance_proof,
          sender |-> from_transfer.balance_proof.sender,
          routes |-> routes]

\* Variant of refund_queries that checks the role before it looks up routes.
refund_queries_role_first(r, m, a) ==
    LET token_network_address == m.token_network_address
        from_transfer == lockedtransfersigned_from_message(m)
        chain_state_read == a.chain_state
        e0 == query(NoEffect, [fn |-> "state_from_raiden", result |-> chain_state_read])
        e1 == query(e0,
                [fn |-> "get_transfer_role",
                 chain_state |-> chain_state_read,
                 secrethash |-> from_transfer.lock.secrethash,
                 result |-> a.role])
        e2 == query(e1,
                [fn |-> "get_best_routes",
                 chain_state |-> chain_state_read,
                 token_network_address |-> token_network_address,
                 one_to_n_address |-> r.default_one_to_n_address,
                 from_address |-> r.address,
                 to_address |-> from_transfer.target,
                 amount |-> from_transfer.lock.amount,
                 previous_address |-> m.sender,
                 config |-> r.config,
                 privkey |-> r.privkey,
                 result |-> a.routes])
    IN IF a.role = "initiator"
       THEN query(
              query(e2,
                 [fn |-> "get_transfer_secret",
                  chain_state |-> chain_state_read,
                  secrethash |-> from_transfer.lock.secrethash,
                  result |-> a.old_secret]),
              [fn |-> "random_secret", result |-> a.random])
       ELSE e2

\* Variant of refund_queries that draws a fresh secret in every role.
refund_queries_secret_always(r, m, a) ==
    LET token_network_address == m.token_network_address
        from_transfer == lockedtransfersigned_from_message(m)
        chain_state_read == a.chain_state
        e0 == query(NoEffect, [fn |-> "state_from_raiden", result |-> chain_state_read])
        e1 == query(e0,
                [fn |-> "get_best_routes",
                 chain_state |-> chain_state_read,
                 token_network_address |-> token_network_address,
                 one_to_n_address |-> r.default_one_to_n_address,
                 from_address |-> r.address,
                 to_address |-> from_transfer.target,
                 amount |-> from_transfer.lock.amount,
                 previous_address |-> m.sender,
                 config |-> r.config,
                 privkey |-> r.privkey,
                 result |-> a.routes])
        e2 == query(e1,
                [fn |-> "get_transfer_role",
                 chain_state |-> chain_state_read,
                 secrethash |-> from_transfer.lock.secrethash,
                 result |-> a.role])
        e3 == IF a.role = "initiator"
              THEN query(e2,
                     [fn |-> "get_transfer_secret",
                      chain_state |-> chain_state_read,
                      secrethash |-> from_transfer.lock.secrethash,
                      result |-> a.old_secret])
              ELSE e2
    IN query(e3, [fn |-> "random_secret", result |-> a.random])

\* Variant of refund_queries that reads the chain state again after the route
\* lookup has returned, and asks for the role and the secret against that.
refund_queries_reread(r, m, a) ==
    LET token_network_address == m.token_network_address
        from_transfer == lockedtransfersigned_from_message(m)
        chain_state_read == a.chain_state
        e0 == query(NoEffect, [fn |-> "state_from_raiden", result |-> chain_state_read])
        e1 == query(e0,
                [fn |-> "get_best_routes",
                 chain_state |-> chain_state_read,
                 token_network_address |-> token_network_address,
                 one_to_n_address |-> r.default_one_to_n_address,
                 from_address |-> r.address,
                 to_address |-> from_transfer.target,
                 amount |-> from_transfer.lock.amount,
                 previous_address |-> m.sender,
                 config |-> r.config,
                 privkey |-> r.privkey,
                 result |-> a.routes])
        e2 == query(e1,
                [fn |-> "get_transfer_role",
                 chain_state |-> a.chain_state_later,
                 secrethash |-> from_transfer.lock.secrethash,
                 result |-> a.role])
    IN IF a.role = "initiator"
       THEN query(
              query(e2,
                 [fn |-> "get_transfer_secret",
                  chain_state |-> a.chain_state_later,
                  secrethash |-> from_transfer.lock.secrethash,
                  result |-> a.old_secret]),
              [fn |-> "random_secret", result |-> a.random])
       ELSE e2

\* The queries a refund makes before it builds its state change, in order:
\* chain state, routes, role and, for the initiator, known secret and a
\* fresh secret.
refund_queries(r, m, a) ==
    LET token_network_address == m.token_network_address
        from_transfer == lockedtransfersigned_from_message(m)
        chain_state_read == a.chain_state
        e0 == query(NoEffect, [fn |-> "state_from_raiden", result |-> chain_state_read])
        e1 == query(e0,
                [fn |-> "get_best_routes",
                 chain_state |-> chain_state_read,
                 token_network_address |-> token_network_address,
                 one_to_n_address |-> r.default_one_to_n_address,
                 from_address |-> r.address,
                 to_address |-> from_transfer.target,
                 amount |-> from_transfer.lock.amount,
                 previous_address |-> m.sender,
                 config |-> r.config,
                 privkey |-> r.privkey,
                 result |-> a.routes])
        e2 == query(e1,
                [fn |-> "get_transfer_role",
                 chain_state |-> chain_state_read,
                 secrethash |-> from_transfer.lock.secrethash,
                 result |-> a.role])
    IN IF a.role = "initiator"
       THEN query(
              query(e2,
                 [fn |-> "get_transfer_secret",
                  chain_state |-> chain_state_read,
                  secrethash |-> from_transfer.lock.secrethash,
                  result |-> a.old_secret]),
              [fn |-> "random_secret", result |-> a.random])
       ELSE e2

\* Variant of handle_message_refundtransfer that tracks the state change in
\* the initiator branch only.
handle_message_refundtransfer_initiator_only(r, m, a) ==
    IF a.role = "initiator"
    THEN handle_and_track_state_change(
            refund_queries(r, m, a),
            refund_state_change(lockedtransfersigned_from_message(m),
                                a.routes, a.role, a.old_secret, a.random))
    ELSE refund_queries(r, m, a)

\* Variant of handle_message_refundtransfer that reports the message's own
\* sender as the state change's sender.
handle_message_refundtransfer_outer_sender(r, m, a) ==
    LET from_transfer == lockedtransfersigned_from_message(m)
        state_change ==
            refund_state_change(from_transfer, a.routes, a.role, a.old_secret, a.random)
    IN handle_and_track_state_change(
            refund_queries(r, m, a), [state_change EXCEPT !.sender = m.sender])

\* Variant of handle_message_refundtransfer that checks the secret registry
\* first and drops a refund whose secrethash is registered.
handle_message_refundtransfer_guarded(r, m, a) ==
    LET from_transfer == lockedtransfersigned_from_message(m)
        e1 == query(NoEffect,
                [fn |-> "is_secret_registered",
                 secrethash |-> m.lock.secrethash,
                 block_identifier |-> "latest",
                 result |-> a.registered])
    IN IF a.registered
       THEN e1
       ELSE handle_and_track_state_change(
               refund_queries(r, m, a),
               refund_state_change(from_transfer, a.routes, a.role, a.old_secret, a.random))

handle_message_refundtransfer(r, m, a) ==
    LET from_transfer == lockedtransfersigned_from_message(m)
        routes == a.routes
        role == a.role
        old_secret == a.old_secret
        secret == a.random
        state_change == refund_state_change(from_transfer, routes, role, old_secret, secret)
    IN handle_and_track_state_change(refund_queries(r, m, a), state_change)

\* The registry query of a locked transfer.
registry_query(m, a) ==
    query(NoEffect,
        [fn |-> "is_secret_registered",
         secrethash |-> m.lock.secrethash,
         block_identifier |-> "latest",
         result |-> a.registered])

\* Variant of handle_message_lockedtransfer without the early return.
handle_message_lockedtransfer_no_return(r, m, a) ==
    LET e1 == registry_query(m, a)
        e2 == IF a.registered
              THEN [e1 EXCEPT !.logs = Append(@,
                      [level |-> "warning", event |-> "Ignoring received locked transfer"])]
              ELSE e1
    IN IF m.target = r.address
       THEN target_mediated_transfer(e2, m)
       ELSE mediate_mediated_transfer(e2, m)

\* Variant of handle_message_lockedtransfer with the two entry points swapped.
handle_message_lockedtransfer_swapped(r, m, a) ==
    LET e1 == registry_query(m, a)
    IN IF a.registered
       THEN [e1 EXCEPT !.logs = Append(@,
                [level |-> "warning", event |-> "Ignoring received locked transfer"])]
       ELSE IF m.target = r.address
            THEN mediate_mediated_transfer(e1, m)
            ELSE target_mediated_transfer(e1, m)

\* Variant of handle_message_lockedtransfer that asks the registry only
\* after it has invoked the entry point.
handle_message_lockedtransfer_query_late(r, m, a) ==
    LET e1 == IF a.registered
              THEN NoEffect
              ELSE IF m.target = r.address
                   THEN target_mediated_transfer(NoEffect, m)
                   ELSE mediate_mediated_transfer(NoEffect, m)
        e2 == query(e1,
                [fn |-> "is_secret_registered",
                 secrethash |-> m.lock.secrethash,
                 block_identifier |-> "latest",
                 result |-> a.registered])
    IN IF a.registered
       THEN [e2 EXCEPT !.logs = Append(@,
                [level |-> "warning", event |-> "Ignoring received locked transfer"])]
       ELSE e2

handle_message_lockedtransfer(r, m, a) ==
    LET registered == a.registered
        e1 == registry_query(m, a)
    IN IF registered
       THEN [e1 EXCEPT !.logs = Append(@,
                [level |-> "warning", event |-> "Ignoring received locked transfer"])]
       ELSE IF m.target = r.address
            THEN target_mediated_transfer(e1, m)
            ELSE mediate_mediated_transfer(e1, m)

\* Variant of handle_message_processed that drops a message it has just seen.
handle_message_processed_once(r, m) ==
    LET processed ==
            [type |-> "ReceiveProcessed",
             sender |-> m.sender,
             message_identifier |-> m.message_identifier]
    IN IF dispatches > 0 /\ message = m
       THEN NoEffect
       ELSE handle_and_track_state_change(NoEffect, processed)

handle_message_processed(r, m) ==
    LET processed ==
            [type |-> "ReceiveProcessed",
             sender |-> m.sender,
             message_identifier |-> m.message_identifier]
    IN handle_and_track_state_change(NoEffect, processed)

handle_message_delivered(r, m) ==
    LET delivered ==
            [type |-> "ReceiveDelivered",
             sender |-> m.sender,
             message_identifier |-> m.delivered_message_identifier]
    IN handle_and_track_state_change(NoEffect, delivered)

\* ------------------------------------------------------------------------
\* Calling a handler through self.<handler>(raiden, message)
\* ------------------------------------------------------------------------
Handlers ==
    {"handle_message_secretrequest", "handle_message_revealsecret",
     "handle_message_unlock", "handle_message_lockexpired",
     "handle_message_refundtransfer", "handle_message_lockedtransfer",
     "handle_message_withdrawrequest", "handle_message_delivered",
     "handle_message_processed"}

\* The handlers declared with @staticmethod.
StaticMethods == Handlers \ {"handle_message_withdrawrequest"}

\* Every handler is declared with the two parameters (raiden, message).
DeclaredParams(h) == Cardinality({"raiden", "message"})

\* self.h(raiden, message): a static method receives the two arguments, a
\* plain function looked up on the instance is bound and receives self too.
PassedArgs(h) ==
    IF h \in StaticMethods
    THEN Cardinality({"raiden", "message"})
    ELSE Cardinality({"self", "raiden", "message"})

HandlerBody(h, r, m, a) ==
    CASE h = "handle_message_secretrequest" -> handle_message_secretrequest(r, m)
      [] h = "handle_message_revealsecret" -> handle_message_revealsecret(r, m)
      [] h = "handle_message_unlock" -> handle_message_unlock(r, m)
      [] h = "handle_message_lockexpired" -> handle_message_lockexpired(r, m)
      [] h = "handle_message_refundtransfer" -> handle_message_refundtransfer(r, m, a)
      [] h = "handle_message_lockedtransfer" -> handle_message_lockedtransfer(r, m, a)
      [] h = "handle_message_withdrawrequest" -> handle_message_withdrawrequest(r, m)
      [] h = "handle_message_delivered" -> handle_message_delivered(r, m)
      [] h = "handle_message_processed" -> handle_message_processed(r, m)

\* The call binds its arguments or raises TypeError before the body runs.
call_handler(h, r, m, a) ==
    IF PassedArgs(h) # DeclaredParams(h)
    THEN [NoEffect EXCEPT !.raised = "TypeError"]
    ELSE [HandlerBody(h, r, m, a) EXCEPT !.handlers = <<h>> \o @]

\* type(message) == K
TypeIs(m, K) == m.kind = K

\* Variant of unknown_message that lets an exception leave on_message.
unknown_message_raises(m) == [NoEffect EXCEPT !.raised = "AttributeError"]

\* The else branch: log.error("Unknown message cmdid ...") and return.
unknown_message(m) ==
    [NoEffect EXCEPT !.logs =
        <<[level |-> "error", event |-> "Unknown message cmdid", cmdid |-> m.cmdid]>>]

on_message(r, m, a) ==
    IF TypeIs(m, "SecretRequest")
    THEN call_handler("handle_message_secretrequest", r, m, a)
    ELSE IF TypeIs(m, "RevealSecret")
    THEN call_handler("handle_message_revealsecret", r, m, a)
    ELSE IF TypeIs(m, "Unlock")
    THEN call_handler("handle_message_unlock", r, m, a)
    ELSE IF TypeIs(m, "LockExpired")
    THEN call_handler("handle_message_lockexpired", r, m, a)
    ELSE IF TypeIs(m, "RefundTransfer")
    THEN call_handler("handle_message_refundtransfer", r, m, a)
    ELSE IF TypeIs(m, "LockedTransfer")
    THEN call_handler("handle_message_lockedtransfer", r, m, a)
    ELSE IF TypeIs(m, "WithdrawRequest")
    THEN call_handler("handle_message_withdrawrequest", r, m, a)
    ELSE IF TypeIs(m, "Delivered")
    THEN call_handler("handle_message_delivered", r, m, a)
    ELSE IF TypeIs(m, "Processed")
    THEN call_handler("handle_message_processed", r, m, a)
    ELSE unknown_message(m)

\* ------------------------------------------------------------------------
\* The state machine: the transport hands messages to on_message one by one
\* ------------------------------------------------------------------------
\* No earlier outcome to compare the latest call with.
NoPrevious ==
    [redelivered |-> FALSE, tracked |-> <<>>, entries |-> <<>>,
     logs |-> <<>>, raised |-> "none"]

\* What random_secret can draw when (m, a) is dispatched again: anything
\* if the call reaches random_secret, otherwise the draw is never made.
RedeliverySecrets(m, a) ==
    IF m.kind = "RefundTransfer" /\ a.role = "initiator"
    THEN RandomSecrets
    ELSE {a.random}

NodeContexts ==
    [address : {"0xA1"}, config : {"config"}, privkey : {"privkey"},
     default_secret_registry : {"secret_registry"},
     default_one_to_n_address : {"one_to_n"}]

Init ==
    /\ raiden \in NodeContexts
    /\ dispatches = 0
    /\ message = NoMessage
    /\ answers = NoAnswers
    /\ handlers = <<>>
    /\ calls = <<>>
    /\ tracked = <<>>
    /\ entries = <<>>
    /\ logs = <<>>
    /\ raised = "none"
    /\ tracked_total = 0
    /\ entries_total = 0
    /\ trace = <<>>
    /\ previous = NoPrevious
    /\ chain_state = 0
    /\ mailbox = <<>>
    /\ in_progress = <<>>

\* Variant of node_context_after in which a dispatch replaces the private key.
node_context_after_rekeyed(r, m, a) == [r EXCEPT !.privkey = "rekeyed"]

\* The node context after on_message(r, m): no statement of the handler
\* assigns to a field of raiden.
node_context_after(r, m, a) == r

\* One call on_message(raiden, m) during which the collaborators answer a:
\* what it leaves at the sink, the entry points, the collaborators and the log.
Call(m, a) ==
    /\ \E eff \in {on_message(raiden, m, a)} :
          /\ handlers' = eff.handlers
          /\ calls' = eff.calls
          /\ tracked' = eff.tracked
          /\ entries' = eff.entries
          /\ logs' = eff.logs
          /\ raised' = eff.raised
          /\ trace' = eff.trace
          /\ tracked_total' = tracked_total + Len(eff.tracked)
          /\ entries_total' = entries_total + Len(eff.entries)
    /\ dispatches' = dispatches + 1
    /\ message' = m
    /\ answers' = a
    /\ raiden' = node_context_after(raiden, m, a)

\* The transport hands m to on_message directly; the call reads the node's
\* current chain state.
Dispatch(m, a) ==
    /\ dispatches < MaxDispatch
    /\ Call(m, [a EXCEPT !.chain_state = chain_state, !.chain_state_later = chain_state])
    /\ previous' = NoPrevious
    /\ UNCHANGED <<chain_state, mailbox, in_progress>>

\* The transport delivers the latest message a second time (a resend of an
\* unacknowledged message).  The collaborators answer as before; only
\* random_secret, if the call reaches it, draws again.
Redeliver ==
    /\ dispatches > 0
    /\ dispatches < MaxDispatch
    /\ \E s \in RedeliverySecrets(message, answers) :
          Call(message, [answers EXCEPT !.random = s])
    /\ previous' =
          [redelivered |-> TRUE, tracked |-> tracked, entries |-> entries,
           logs |-> logs, raised |-> raised]
    /\ UNCHANGED <<chain_state, mailbox, in_progress>>

OnSecretRequest == \E m \in SecretRequests : Dispatch(m, NoAnswers)
OnRevealSecret == \E m \in RevealSecrets : Dispatch(m, NoAnswers)
OnUnlock == \E m \in Unlocks : Dispatch(m, NoAnswers)
OnLockExpired == \E m \in LockExpireds : Dispatch(m, NoAnswers)
OnRefundTransfer == \E m \in RefundTransfers, a \in RefundAnswers : Dispatch(m, a)
OnLockedTransfer == \E m \in LockedTransfers, a \in RegistryAnswers : Dispatch(m, a)
OnWithdrawRequest == \E m \in WithdrawRequests : Dispatch(m, NoAnswers)
OnDelivered == \E m \in Delivereds : Dispatch(m, NoAnswers)
OnProcessed == \E m \in Processeds : Dispatch(m, NoAnswers)
OnUnknown == \E m \in Unknowns : Dispatch(m, NoAnswers)

Next ==
    \/ OnSecretRequest
    \/ OnRevealSecret
    \/ OnUnlock
    \/ OnLockExpired
    \/ OnRefundTransfer
    \/ OnLockedTransfer
    \/ OnWithdrawRequest
    \/ OnDelivered
    \/ OnProcessed
    \/ OnUnknown
    \/ Redeliver

Spec == Init /\ [][Next]_vars

\* ------------------------------------------------------------------------
\* The host around on_message: the transport puts received messages in one
\* ordered mailbox, and the node takes them from it one at a time.  A call
\* that has begun stays in progress while it waits for the secret registry
\* or for routing; meanwhile the node's chain state may move on.
\* ------------------------------------------------------------------------
HostMessages ==
    {m \in LockedTransfers :
        m.sender = "0xA2" /\ m.envelope.signer = "0xA2"
            /\ m.lock.secrethash = "h1" /\ m.target = "0xA1"}
    \cup
    {m \in RefundTransfers :
        m.sender = "0xA2" /\ m.envelope.signer = "0xA2" /\ m.lock.secrethash = "h1"}
    \cup
    {m \in Processeds : m.sender = "0xA2" /\ m.message_identifier = MaxVal}

\* The collaborator answers tried for a message taken from the mailbox.
HostAnswers(m) ==
    IF m.kind = "RefundTransfer"
    THEN {a \in RefundAnswers :
            /\ a.random = NoAnswers.random
            /\ a.routes = <<>> \/ a.routes = [i \in 1..MaxRoutes |-> i]}
    ELSE IF m.kind = "LockedTransfer"
    THEN RegistryAnswers
    ELSE {NoAnswers}

\* The first call in which on_message(m) waits for an external answer.
BlockingCall(m) ==
    IF m.kind = "RefundTransfer" THEN "get_best_routes"
    ELSE IF m.kind = "LockedTransfer" THEN "is_secret_registered"
    ELSE "none"

\* The transport receives a message and appends it to the mailbox.
Deliver ==
    /\ dispatches + Len(mailbox) + Len(in_progress) < MaxDispatch
    /\ \E m \in HostMessages : mailbox' = Append(mailbox, m)
    /\ UNCHANGED <<raiden, dispatches, message, answers, handlers, calls, tracked,
                   entries, logs, raised, tracked_total, entries_total, trace,
                   previous, chain_state, in_progress>>

\* Variant of Begin that starts the next call while one is in progress.
Begin_overlapping ==
    /\ mailbox # <<>>
    /\ in_progress' =
          Append(in_progress,
            [message |-> Head(mailbox), chain_state |-> chain_state,
             at |-> BlockingCall(Head(mailbox))])
    /\ mailbox' = Tail(mailbox)
    /\ UNCHANGED <<raiden, dispatches, message, answers, handlers, calls, tracked,
                   entries, logs, raised, tracked_total, entries_total, trace,
                   previous, chain_state>>

\* The node takes the oldest message and calls on_message, once the call
\* before has returned.  The call runs up to its first blocking call; a
\* refund has read the chain state by then.
Begin ==
    /\ mailbox # <<>>
    /\ in_progress = <<>>
    /\ in_progress' =
          Append(in_progress,
            [message |-> Head(mailbox), chain_state |-> chain_state,
             at |-> BlockingCall(Head(mailbox))])
    /\ mailbox' = Tail(mailbox)
    /\ UNCHANGED <<raiden, dispatches, message, answers, handlers, calls, tracked,
                   entries, logs, raised, tracked_total, entries_total, trace,
                   previous, chain_state>>

\* The node's chain state changes (a block or a state change is applied).
ChainAdvance ==
    /\ chain_state < MaxChain
    /\ chain_state' = chain_state + 1
    /\ UNCHANGED <<raiden, dispatches, message, answers, handlers, calls, tracked,
                   entries, logs, raised, tracked_total, entries_total, trace,
                   previous, mailbox, in_progress>>

\* A call in progress gets its answers, runs to its end and returns.
Return ==
    /\ \E i \in DOMAIN in_progress :
          /\ \E a \in HostAnswers(in_progress[i].message) :
                Call(in_progress[i].message,
                     [a EXCEPT !.chain_state = in_progress[i].chain_state,
                               !.chain_state_later = chain_state])
          /\ in_progress' =
                [j \in 1..(Len(in_progress) - 1) |->
                    IF j < i THEN in_progress[j] ELSE in_progress[j + 1]]
    /\ previous' = NoPrevious
    /\ UNCHANGED <<chain_state, mailbox>>

NextHost ==
    \/ Deliver
    \/ Begin
    \/ ChainAdvance
    \/ Return

SpecHost == Init /\ [][NextHost]_vars

\* ------------------------------------------------------------------------
\* Vocabulary of the properties
\* ------------------------------------------------------------------------
Dispatched == dispatches > 0

\* The latest on_message call was given a message of exact kind k.
Got(k) == Dispatched /\ message.kind = k

EntryCalled(name) == \E i \in DOMAIN entries : entries[i].entry = name

Queried(fn) == \E i \in DOMAIN calls : calls[i].fn = fn

DirectKinds ==
    {"SecretRequest", "RevealSecret", "Unlock", "LockExpired", "WithdrawRequest",
     "Delivered", "Processed"}

\* The state-change variant each direct-translation kind corresponds to.
VariantOf(k) ==
    CASE k = "SecretRequest" -> "ReceiveSecretRequest"
      [] k = "RevealSecret" -> "ReceiveSecretReveal"
      [] k = "Unlock" -> "ReceiveUnlock"
      [] k = "LockExpired" -> "ReceiveLockExpired"
      [] k = "WithdrawRequest" -> "ReceiveWithdrawRequest"
      [] k = "Delivered" -> "ReceiveDelivered"
      [] k = "Processed" -> "ReceiveProcessed"

\* The handler each supported kind belongs to.
HandlerOf(k) ==
    CASE k = "SecretRequest" -> "handle_message_secretrequest"
      [] k = "RevealSecret" -> "handle_message_revealsecret"
      [] k = "Unlock" -> "handle_message_unlock"
      [] k = "LockExpired" -> "handle_message_lockexpired"
      [] k = "RefundTransfer" -> "handle_message_refundtransfer"
      [] k = "LockedTransfer" -> "handle_message_lockedtransfer"
      [] k = "WithdrawRequest" -> "handle_message_withdrawrequest"
      [] k = "Delivered" -> "handle_message_delivered"
      [] k = "Processed" -> "handle_message_processed"

\* State change sc carries the fields of direct-translation message m.
FieldsCopied(m, sc) ==
    CASE m.kind = "SecretRequest" ->
            /\ sc.payment_identifier = m.payment_identifier
            /\ sc.amount = m.amount
            /\ sc.expiration = m.expiration
            /\ sc.secrethash = m.secrethash
            /\ sc.sender = m.sender
      [] m.kind = "RevealSecret" ->
            /\ sc.secret = m.secret
            /\ sc.sender = m.sender
      [] m.kind = "Unlock" ->
            /\ sc.message_identifier = m.message_identifier
            /\ sc.secret = m.secret
            /\ sc.balance_proof.nonce = m.envelope.nonce
            /\ sc.balance_proof.sender = m.envelope.signer
            /\ sc.sender = m.envelope.signer
      [] m.kind = "LockExpired" ->
            /\ sc.message_identifier = m.message_identifier
            /\ sc.secrethash = m.secrethash
            /\ sc.balance_proof.nonce = m.envelope.nonce
            /\ sc.balance_proof.sender = m.envelope.signer
            /\ sc.sender = m.envelope.signer
      [] m.kind = "WithdrawRequest" ->
            /\ sc.token_network_identifier = m.token_network_identifier
            /\ sc.channel_identifier = m.channel_identifier
            /\ sc.amount = m.amount
            /\ sc.sender = m.sender
      [] m.kind = "Delivered" ->
            /\ sc.message_identifier = m.delivered_message_identifier
            /\ sc.sender = m.sender
      [] m.kind = "Processed" ->
            /\ sc.message_identifier = m.message_identifier
            /\ sc.sender = m.sender

\* ------------------------------------------------------------------------
\* C1 - Replay guard.  Every on_message call that is given a LockedTransfer
\* while the secret registry answers "registered" tracks no state change and
\* invokes neither target_mediated_transfer nor mediate_mediated_transfer,
\* whatever the message's target and whatever was dispatched before: the
\* step leaves the totals of tracked state changes and entry-point
\* invocations where they were.
\* ------------------------------------------------------------------------
ReplayGuard ==
    [][(message'.kind = "LockedTransfer" /\ answers'.registered)
        => /\ tracked' = <<>>
           /\ entries' = <<>>
           /\ tracked_total' = tracked_total
           /\ entries_total' = entries_total]_vars

\* A registered LockedTransfer addressed to this node, dispatched after an
\* earlier message that had an effect.
ReplayGuardWitness ==
    /\ Got("LockedTransfer")
    /\ answers.registered
    /\ message.target = raiden.address
    /\ Queried("is_secret_registered")
    /\ dispatches >= 2
    /\ tracked_total + entries_total > 0

\* ------------------------------------------------------------------------
\* C2 - Refund, initiator without secret.  When a RefundTransfer is
\* dispatched, the role is "initiator" and the known secret is ABSENT_SECRET,
\* exactly one state change is tracked, it is a
\* ReceiveTransferRefundCancelRoute, its routes are empty whatever routing
\* returned, and its secret is the non-empty secret random_secret() drew.
\* No cancel-route state change with routes is tracked while the secret is
\* absent.
\* ------------------------------------------------------------------------
RefundInitiatorWithoutSecret ==
    /\ (Got("RefundTransfer") /\ answers.role = "initiator"
            /\ answers.old_secret = ABSENT_SECRET)
        => /\ raised = "none"
           /\ Len(tracked) = 1
           /\ tracked[1].type = "ReceiveTransferRefundCancelRoute"
           /\ tracked[1].routes = <<>>
           /\ tracked[1].secret = answers.random
           /\ tracked[1].secret # ABSENT_SECRET
    /\ \A i \in DOMAIN tracked :
         (tracked[i].type = "ReceiveTransferRefundCancelRoute" /\ tracked[i].routes # <<>>)
            => answers.old_secret # ABSENT_SECRET

\* The initiator lacks the secret and routing returned two routes.
RefundInitiatorWithoutSecretWitness ==
    /\ Got("RefundTransfer")
    /\ answers.role = "initiator"
    /\ answers.old_secret = ABSENT_SECRET
    /\ Len(answers.routes) = 2
    /\ Len(tracked) = 1
    /\ tracked[1].routes = <<>>

\* ------------------------------------------------------------------------
\* C3 (as claimed) - Refund, initiator with known secret S: the tracked
\* ReceiveTransferRefundCancelRoute carries the routes routing returned, in
\* order, and its secret field equals S.
\* ------------------------------------------------------------------------
RefundInitiatorSecretIsKnownSecret ==
    (Got("RefundTransfer") /\ answers.role = "initiator"
            /\ answers.old_secret # ABSENT_SECRET)
        => /\ Len(tracked) = 1
           /\ tracked[1].type = "ReceiveTransferRefundCancelRoute"
           /\ tracked[1].routes = answers.routes
           /\ tracked[1].secret = answers.old_secret

\* ------------------------------------------------------------------------
\* C3 (amended) - Refund, initiator with known secret S: the tracked
\* ReceiveTransferRefundCancelRoute carries the routes routing returned,
\* unmodified and in order, and its secret field is the secret that
\* random_secret() returned during this dispatch; S is only compared with
\* ABSENT_SECRET and is not copied into the state change.
\* ------------------------------------------------------------------------
RefundInitiatorWithSecret ==
    (Got("RefundTransfer") /\ answers.role = "initiator"
            /\ answers.old_secret # ABSENT_SECRET)
        => /\ raised = "none"
           /\ Len(tracked) = 1
           /\ tracked[1].type = "ReceiveTransferRefundCancelRoute"
           /\ tracked[1].routes = answers.routes
           /\ Len(calls) > 0
           /\ calls[Len(calls)].fn = "random_secret"
           /\ tracked[1].secret = calls[Len(calls)].result

\* The initiator knows S, routing returned two routes in descending order,
\* and the secret drawn differs from S.
RefundInitiatorWithSecretWitness ==
    /\ Got("RefundTransfer")
    /\ answers.role = "initiator"
    /\ answers.old_secret = "s1"
    /\ answers.routes = <<2, 1>>
    /\ Len(tracked) = 1
    /\ tracked[1].routes = <<2, 1>>
    /\ tracked[1].secret = "s2"

\* ------------------------------------------------------------------------
\* C4 - Direct-translation handlers are total.  Dispatching a SecretRequest,
\* RevealSecret, Unlock, LockExpired, WithdrawRequest, Delivered or Processed
\* returns without raising and tracks exactly one state change, of the
\* corresponding variant, with its fields copied from the message.
\* ------------------------------------------------------------------------
DirectTranslationTotal ==
    (Dispatched /\ message.kind \in DirectKinds)
        => /\ raised = "none"
           /\ Len(tracked) = 1
           /\ tracked[1].type = VariantOf(message.kind)
           /\ FieldsCopied(message, tracked[1])

\* ------------------------------------------------------------------------
\* C5 - Exact-kind dispatch.  For each of the nine supported kinds the call
\* runs exactly one handler, the one of the message's exact kind; a
\* RefundTransfer runs the refund handler and never the locked-transfer
\* handler, a LockedTransfer never the refund handler.
\* ------------------------------------------------------------------------
ExactKindDispatch ==
    (Dispatched /\ message.kind \in SupportedKinds)
        => /\ handlers = <<HandlerOf(message.kind)>>
           /\ \A k \in Mro(message.kind) \ {message.kind} :
                \A i \in DOMAIN handlers : handlers[i] # HandlerOf(k)

\* ------------------------------------------------------------------------
\* C6 - Target vs mediate routing.  When a LockedTransfer is dispatched and
\* the registry answers "not registered", exactly one entry point is invoked,
\* with the message unmodified: target_mediated_transfer if message.target is
\* the node's address, mediate_mediated_transfer otherwise; no state change
\* is tracked.
\* ------------------------------------------------------------------------
TargetOrMediate ==
    (Got("LockedTransfer") /\ ~answers.registered)
        => /\ raised = "none"
           /\ tracked = <<>>
           /\ Len(entries) = 1
           /\ entries[1].message = message
           /\ entries[1].entry =
                IF message.target = raiden.address
                THEN "target_mediated_transfer"
                ELSE "mediate_mediated_transfer"

\* An unregistered LockedTransfer for another node went to the mediator entry.
TargetOrMediateWitness ==
    /\ Got("LockedTransfer")
    /\ ~answers.registered
    /\ message.target # raiden.address
    /\ EntryCalled("mediate_mediated_transfer")

\* ------------------------------------------------------------------------
\* C7 - Refund, mediator.  When a RefundTransfer is dispatched and the role
\* is anything but "initiator", exactly one state change is tracked, it is a
\* ReceiveTransferRefund carrying exactly the route list routing returned
\* (empty or not, secret known or absent), and no cancel-route state change
\* is tracked.
\* ------------------------------------------------------------------------
RefundMediator ==
    (Got("RefundTransfer") /\ answers.role # "initiator")
        => /\ raised = "none"
           /\ Len(tracked) = 1
           /\ tracked[1].type = "ReceiveTransferRefund"
           /\ tracked[1].routes = answers.routes

\* A non-initiator, non-mediator role without the secret forwards two routes.
RefundMediatorWitness ==
    /\ Got("RefundTransfer")
    /\ answers.role = "target"
    /\ answers.old_secret = ABSENT_SECRET
    /\ Len(answers.routes) = 2
    /\ Len(tracked) = 1
    /\ tracked[1].type = "ReceiveTransferRefund"

\* ------------------------------------------------------------------------
\* C8 - Refund handling always completes.  Every dispatched RefundTransfer
\* returns without raising and tracks exactly one state change, a
\* ReceiveTransferRefund or a ReceiveTransferRefundCancelRoute; when routing
\* found nothing (its failure signal, the empty route list), that state
\* change carries the empty route list.
\* ------------------------------------------------------------------------
RefundAlwaysCompletes ==
    Got("RefundTransfer")
        => /\ raised = "none"
           /\ Len(tracked) = 1
           /\ tracked[1].type \in
                {"ReceiveTransferRefund", "ReceiveTransferRefundCancelRoute"}
           /\ (answers.routes = <<>> => tracked[1].routes = <<>>)
           /\ entries = <<>>

\* Routing returned nothing to a mediator and the refund was still tracked.
RefundAlwaysCompletesWitness ==
    /\ Got("RefundTransfer")
    /\ answers.role = "mediator"
    /\ answers.routes = <<>>
    /\ Queried("get_best_routes")
    /\ Len(tracked) = 1
    /\ tracked[1].routes = <<>>

\* ------------------------------------------------------------------------
\* C9 - Unknown-kind safety.  An on_message call given a message whose exact
\* kind is none of the nine supported ones runs no handler, tracks no state
\* change, invokes no entry point, makes no collaborator query, writes one
\* error log record and returns without raising; it leaves the node context
\* and the totals as they were, so later dispatches start from the state
\* they would have started from without it.
\* ------------------------------------------------------------------------
UnknownKindSafety ==
    [][(message'.kind \notin SupportedKinds)
        => /\ raised' = "none"
           /\ handlers' = <<>>
           /\ tracked' = <<>>
           /\ entries' = <<>>
           /\ calls' = <<>>
           /\ Len(logs') = 1
           /\ logs'[1].level = "error"
           /\ tracked_total' = tracked_total
           /\ entries_total' = entries_total
           /\ raiden' = raiden]_vars

\* An unknown message arrived after a message that had an effect.
UnknownKindSafetyWitness ==
    /\ Dispatched
    /\ message.kind \in UnknownKinds
    /\ dispatches >= 2
    /\ tracked_total + entries_total > 0
    /\ Len(logs) = 1

\* ------------------------------------------------------------------------
\* C10 - Exactly one terminal outcome per dispatch.  Every on_message call
\* returns without raising and ends in exactly one of: one state change
\* tracked, one entry point invoked, or logged and dropped; hence after n
\* calls at most n state changes and entry-point invocations were made.
\* ------------------------------------------------------------------------
OneOutcomePerDispatch ==
    Dispatched
        => /\ raised = "none"
           /\ \/ Len(tracked) = 1 /\ entries = <<>> /\ logs = <<>>
              \/ tracked = <<>> /\ Len(entries) = 1 /\ logs = <<>>
              \/ tracked = <<>> /\ entries = <<>> /\ Len(logs) = 1
           /\ tracked_total + entries_total <= dispatches

\* ------------------------------------------------------------------------
\* C11 - Balance-proof sender precedence.  For every Unlock and LockExpired
\* the tracked ReceiveUnlock / ReceiveLockExpired embeds the balance proof
\* derived from the message's envelope, and its sender is that balance
\* proof's sender (the envelope's signer), also when the message's own
\* sender field differs.
\* ------------------------------------------------------------------------
BalanceProofSenderPrecedence ==
    (Got("Unlock") \/ Got("LockExpired"))
        => /\ Len(tracked) = 1
           /\ tracked[1].balance_proof.nonce = message.envelope.nonce
           /\ tracked[1].balance_proof.sender = message.envelope.signer
           /\ tracked[1].sender = message.envelope.signer
           /\ tracked[1].sender = tracked[1].balance_proof.sender

\* A relayed Unlock: the message's sender is not the envelope's signer.
BalanceProofSenderPrecedenceWitness ==
    /\ Got("Unlock")
    /\ message.sender # message.envelope.signer
    /\ Len(tracked) = 1
    /\ tracked[1].sender # message.sender

\* ------------------------------------------------------------------------
\* C12 - Idempotent translation.  When the same message is dispatched a
\* second time and the collaborators answer as before, the second call has
\* the outcome of the first: the same entry-point invocations, the same
\* exception or none, and the same state changes field by field, except
\* that a ReceiveTransferRefundCancelRoute may carry another generated
\* secret.  For SecretRequest, RevealSecret, Delivered and Processed both
\* calls track one state change and the two are identical.
\* ------------------------------------------------------------------------
SameStateChange(p, q) ==
    \/ p = q
    \/ /\ p.type = "ReceiveTransferRefundCancelRoute"
       /\ q.type = "ReceiveTransferRefundCancelRoute"
       /\ [p EXCEPT !.secret = q.secret] = q

RegistryCheckFirst ==
    /\ Got("LockedTransfer")
        => /\ Len(calls) = 1
           /\ calls[1].fn = "is_secret_registered"
           /\ calls[1].secrethash = message.lock.secrethash
           /\ calls[1].block_identifier = "latest"
           /\ calls[1].result = answers.registered
           /\ Len(trace) >= 1
           /\ trace[1] = "is_secret_registered"
    /\ entries # <<>>
        => /\ message.kind = "LockedTransfer"
           /\ Len(entries) = 1
           /\ trace = <<"is_secret_registered", entries[1].entry>>
           /\ calls[1].secrethash = entries[1].message.lock.secrethash
           /\ calls[1].result = FALSE

\* The registry answered "not registered" and the target entry point followed.
RegistryCheckFirstWitness ==
    /\ Got("LockedTransfer")
    /\ trace = <<"is_secret_registered", "target_mediated_transfer">>
    /\ message.lock.secrethash = "h2"
    /\ calls[1].secrethash = "h2"

\* ------------------------------------------------------------------------
\* C15 - Refund order of operations.  Every RefundTransfer call reads the
\* chain state, then looks up routes, then asks for the role; only in the
\* initiator branch it then asks for the known secret (and draws a secret);
\* tracking the state change is the last thing it does.  The route lookup
\* is made for a mediator and for an initiator without the secret too.
\* ------------------------------------------------------------------------
RefundOrder ==
    Got("RefundTransfer")
        => trace =
            IF answers.role = "initiator"
            THEN <<"state_from_raiden", "get_best_routes", "get_transfer_role",
                   "get_transfer_secret", "random_secret",
                   "handle_and_track_state_change">>
            ELSE <<"state_from_raiden", "get_best_routes", "get_transfer_role",
                   "handle_and_track_state_change">>

\* An initiator without the secret: two routes were looked up before the
\* role was known, and then discarded.
RefundOrderWitness ==
    /\ Got("RefundTransfer")
    /\ answers.role = "initiator"
    /\ answers.old_secret = ABSENT_SECRET
    /\ Len(answers.routes) = 2
    /\ Len(trace) = 6
    /\ trace[2] = "get_best_routes"
    /\ trace[3] = "get_transfer_role"
    /\ calls[2].result = answers.routes

\* ------------------------------------------------------------------------
\* C16 - Refund sender authority.  In both refund branches the tracked state
\* change carries the transfer reconstructed from the message, that
\* transfer's balance proof, and as sender that balance proof's sender (the
\* envelope's signer).  The message's own sender appears only as
\* previous_address of the route query.
\* ------------------------------------------------------------------------
RefundSenderAuthority ==
    Got("RefundTransfer")
        => /\ Len(tracked) = 1
           /\ tracked[1].transfer.lock = message.lock
           /\ tracked[1].transfer.target = message.target
           /\ tracked[1].transfer.balance_proof.sender = message.envelope.signer
           /\ tracked[1].transfer.balance_proof.nonce = message.envelope.nonce
           /\ tracked[1].balance_proof = tracked[1].transfer.balance_proof
           /\ tracked[1].sender = tracked[1].balance_proof.sender
           /\ Len(calls) >= 2
           /\ calls[2].fn = "get_best_routes"
           /\ calls[2].previous_address = message.sender
           /\ calls[2].from_address = raiden.address
           /\ calls[2].to_address = message.target

\* A relayed refund handled by a mediator: the message's sender is not the
\* signer, and the state change names the signer.
RefundSenderAuthorityWitness ==
    /\ Got("RefundTransfer")
    /\ answers.role = "mediator"
    /\ message.sender # message.envelope.signer
    /\ Len(tracked) = 1
    /\ tracked[1].type = "ReceiveTransferRefund"
    /\ tracked[1].sender = message.envelope.signer
    /\ calls[2].previous_address = message.sender

\* ------------------------------------------------------------------------
\* C17 - Node context is left unchanged by dispatch.  No step changes the
\* node's address, configuration, private key, secret-registry handle or
\* one-to-n address; a dispatch leaves at most one call at the sink or at an
\* entry point, and every collaborator call it makes is a read-only query.
\* ------------------------------------------------------------------------
ReadOnlyQueries ==
    {"state_from_raiden", "get_best_routes", "get_transfer_role",
     "get_transfer_secret", "random_secret", "is_secret_registered"}

NodeContextUnchanged ==
    [][/\ raiden'.address = raiden.address
       /\ raiden'.config = raiden.config
       /\ raiden'.privkey = raiden.privkey
       /\ raiden'.default_secret_registry = raiden.default_secret_registry
       /\ raiden'.default_one_to_n_address = raiden.default_one_to_n_address
       /\ Len(tracked') + Len(entries') <= 1
       /\ \A i \in 1..Len(calls') : calls'[i].fn \in ReadOnlyQueries]_vars

\* Two dispatches have run, the second a refund that read the context for
\* its route query, and the context is still the initial one.
NodeContextUnchangedWitness ==
    /\ dispatches = 2
    /\ Got("RefundTransfer")
    /\ Len(calls) >= 2
    /\ calls[2].fn = "get_best_routes"
    /\ calls[2].privkey = raiden.privkey
    /\ Len(tracked) = 1
    /\ raiden \in NodeContexts

\* ------------------------------------------------------------------------
\* C18 - The replay guard applies to LockedTransfer only.  The secret
\* registry is queried only by a dispatch of exact kind LockedTransfer; the
\* routing, role and known-secret queries are made only by a dispatch of
\* kind RefundTransfer; a RefundTransfer whose secrethash is registered
\* on-chain still tracks exactly one refund state change.
\* ------------------------------------------------------------------------
RefundOnlyQueries ==
    {"state_from_raiden", "get_best_routes", "get_transfer_role", "get_transfer_secret"}

ReplayGuardLockedTransferOnly ==
    Dispatched
        => /\ Queried("is_secret_registered") => message.kind = "LockedTransfer"
           /\ \A f \in RefundOnlyQueries : Queried(f) => message.kind = "RefundTransfer"
           /\ message.kind = "RefundTransfer"
                 => /\ Len(tracked) = 1
                    /\ tracked[1].type \in
                          {"ReceiveTransferRefund", "ReceiveTransferRefundCancelRoute"}
                    /\ entries = <<>>
                    /\ logs = <<>>

\* A refund for a lock whose secrethash is registered on-chain is tracked.
ReplayGuardLockedTransferOnlyWitness ==
    /\ Got("RefundTransfer")
    /\ answers.registered
    /\ ~Queried("is_secret_registered")
    /\ Queried("get_best_routes")
    /\ Len(tracked) = 1
    /\ tracked[1].type = "ReceiveTransferRefund"

\* ------------------------------------------------------------------------
\* C19 - Single chain-state snapshot per refund.  One RefundTransfer
\* dispatch reads the chain state once, before any other query, and hands
\* that same value to the route lookup, the role query and the known-secret
\* query, also when the node's chain state has moved on while the route
\* lookup was waiting.
\* ------------------------------------------------------------------------
ChainStateReads == {i \in DOMAIN calls : calls[i].fn = "state_from_raiden"}

SingleChainStateSnapshot ==
    Got("RefundTransfer")
        => /\ ChainStateReads = {1}
           /\ calls[1].result = answers.chain_state
           /\ Queried("get_best_routes")
           /\ Queried("get_transfer_role")
           /\ \A i \in DOMAIN calls :
                 calls[i].fn \in {"get_best_routes", "get_transfer_role", "get_transfer_secret"}
                    => calls[i].chain_state = calls[1].result

\* An initiator's refund returned after the chain state had moved on during
\* its route lookup; all three queries were made against the earlier value.
SingleChainStateSnapshotWitness ==
    /\ Got("RefundTransfer")
    /\ answers.role = "initiator"
    /\ answers.chain_state_later # answers.chain_state
    /\ chain_state # calls[1].result
    /\ Queried("get_transfer_secret")
    /\ \A i \in DOMAIN calls :
          calls[i].fn \in {"get_best_routes", "get_transfer_role", "get_transfer_secret"}
             => calls[i].chain_state = answers.chain_state

\* ------------------------------------------------------------------------
\* C20 - Secret generation is confined to the initiator refund branch.  A
\* dispatch calls random_secret at most once, and does so exactly when it
\* handles a RefundTransfer with role "initiator"; the cancel-route state
\* change carries the secret drawn by its own dispatch; ReceiveTransferRefund
\* has no secret, and any other state change with a secret carries the
\* message's.  When the same refund is dispatched twice, each cancel-route
\* state change carries its own dispatch's draw, whatever the other drew.
\* ------------------------------------------------------------------------
SecretDraws == {i \in DOMAIN calls : calls[i].fn = "random_secret"}

SecretGenerationConfined ==
    Dispatched
        => /\ Cardinality(SecretDraws) <= 1
           /\ SecretDraws # {}
                 <=> (message.kind = "RefundTransfer" /\ answers.role = "initiator")
           /\ \A i \in DOMAIN tracked :
                 IF tracked[i].type = "ReceiveTransferRefundCancelRoute"
                 THEN /\ SecretDraws # {}
                      /\ \A g \in SecretDraws : tracked[i].secret = calls[g].result
                 ELSE IF tracked[i].type = "ReceiveTransferRefund"
                 THEN "secret" \notin DOMAIN tracked[i]
                 ELSE "secret" \in DOMAIN tracked[i]
                         => tracked[i].secret = message.secret
           /\ (previous.redelivered /\ SecretDraws # {})
                 => /\ Len(previous.tracked) = 1
                    /\ previous.tracked[1].type = "ReceiveTransferRefundCancelRoute"
                    /\ previous.tracked[1].secret \in RandomSecrets

\* The same initiator refund was dispatched twice and the two cancel-route
\* state changes carry different secrets.
SecretGenerationConfinedWitness ==
    /\ previous.redelivered
    /\ Got("RefundTransfer")
    /\ answers.role = "initiator"
    /\ Cardinality(SecretDraws) = 1
    /\ Len(tracked) = 1
    /\ tracked[1].type = "ReceiveTransferRefundCancelRoute"
    /\ previous.tracked[1].type = "ReceiveTransferRefundCancelRoute"
    /\ tracked[1].secret # previous.tracked[1].secret

====
